---- MODULE Spec2Model ----
(***************************************************************************)
(* Newsletter publish-to-delivery pipeline: the relational store (Post,    *)
(* Subscriber, OutboxEvent, Send), the POST /api/posts handler, the        *)
(* subscribe and confirm routes, and the cron callback of startScheduler   *)
(* (promotion of due posts, outbox expansion, send processing).  Every     *)
(* awaited store call is one step (a mailer call touches no shared state   *)
(* and is one step with the update that records its outcome); a            *)
(* $transaction is one atomic step that commits or changes nothing.        *)
(***************************************************************************)
EXTENDS Integers, FiniteSets, Sequences, TLC

\* ------------------------------------------------------------------ bounds
NumPosts == 2
NumSubs == 2
NumTicks == 2
MaxTime == 1
MaxTokens == 2
MaxFaults == 1
MaxInFlight == 2
MaxRetryFaults == 3
MaxBacklog == 40
MaxTasks == 2

\* ------------------------------------------------------- program constants
batchSize == 25
FailThreshold == 5

\* --------------------------------------------------------------- universes
NULL == 0 - 1
NoError == "null"
PostIds == 1 .. NumPosts
Emails == 1 .. NumSubs
Times == 0 .. MaxTime
Tokens == 1 .. MaxTokens
Ticks == 1 .. NumTicks
Handler == 0
Procs == {Handler} \cup Ticks
MailErrors == {"smtp rejected"}
PriorError == "smtp timeout"
StoreError == "store error"

PostStatus == {"DRAFT", "SCHEDULED", "PUBLISHED"}
SubStatus == {"PENDING", "ACTIVE", "UNSUBSCRIBED"}

VARIABLES
    tasks,      \* cron tasks of this process that startScheduler has started
    schedulerStarted, \* globalForScheduler.schedulerStarted
    creq,       \* GET /api/confirm: the request in flight or the last one answered
    now,        \* wall clock, read by new Date()
    faultsLeft, \* store and mailer failures the environment may still inject
    posts,      \* Post table: sequence indexed by post id
    subs,       \* Subscriber table: one optional row per email
    nextToken,  \* tokens handed out so far by crypto.randomUUID()
    outbox,     \* OutboxEvent table
    created,    \* per post: number of OutboxEvent rows ever inserted
    sends,      \* Send table
    expansions, \* per post: number of committed expansion transactions
    audience,   \* per post: subscribers that were ACTIVE when one of them ran
    pc,         \* per process: position in its handler
    due,        \* per tick: duePosts not yet handled
    evs,        \* per process: events not yet handled
    batch,      \* per process: sends not yet handled
    cur,        \* per process: the send being handled (snapshot row)
    res,        \* per process: outcome of the mailer call for cur
    hpost,      \* POST handler: id of the post it created
    hnow        \* POST handler: its `now`

dbVars == <<posts, subs, nextToken, outbox, created, sends, expansions, audience>>
procVars == <<pc, due, evs, batch, cur, res, hpost, hnow>>
vars == <<tasks, schedulerStarted, creq, now, faultsLeft, posts, subs, nextToken, outbox, created, sends,
          expansions, audience, pc, due, evs, batch, cur, res, hpost, hnow>>

NoSub == [status |-> "NONE", token |-> NULL]
NoConfirm == [pc |-> "idle", token |-> NULL, sub |-> 0, status |-> 0]
NoSend == [id |-> 0, postId |-> 0, subscriberId |-> 0, status |-> "NONE",
           attempts |-> 0, lastError |-> NoError]

\* ----------------------------------------------------------- store helpers
\* a uniqueKey that leaves the post id out
UniqueKeyWithoutId(postId) == <<"post", 0>>

UniqueKey(postId) == <<"post", postId>>

PostPublishedEvent(postId, n) ==
    [id |-> <<postId, n>>, type |-> "PostPublished", postId |-> postId,
     uniqueKey |-> UniqueKey(postId)]

\* OutboxEvent_uniqueKey_key: an insert with an existing uniqueKey fails
UniqueKeyTaken(tbl, key) == \E e \in tbl : e.uniqueKey = key

\* findMany without the `where: {status: "ACTIVE"}` filter
AnySubscribers(s) == {e \in Emails : s[e].status # "NONE"}

ActiveSubscribers(s) == {e \in Emails : s[e].status = "ACTIVE"}

\* findMany without the `scheduledAt: {lte: now}` filter
DuePostsAnyTime(ps, t) ==
    {i \in DOMAIN ps : /\ ps[i].status = "SCHEDULED"
                       /\ ps[i].scheduledAt # NULL}

DuePosts(ps, t) ==
    {i \in DOMAIN ps : /\ ps[i].status = "SCHEDULED"
                       /\ ps[i].scheduledAt # NULL
                       /\ ps[i].scheduledAt <= t}

\* a promotion that writes the wrong status
PromotedStatusDraft == "DRAFT"

PromotedStatus == "PUBLISHED"

\* findMany returns rows in insertion (id) order; loops take them first to last
First(ids) == CHOOSE x \in ids : \A y \in ids : x <= y
FirstEvent(events) == CHOOSE e \in events : \A f \in events : e.postId <= f.postId
FirstSend(rows) == CHOOSE r \in rows : \A q \in rows : r.id <= q.id

NewSendRow(tbl, postId, subscriberId, fresh) ==
    [id |-> Cardinality(tbl) + Cardinality({x \in fresh : x <= subscriberId}),
     postId |-> postId, subscriberId |-> subscriberId,
     status |-> "QUEUED", attempts |-> 0, lastError |-> NoError]

\* createMany without the (postId, subscriberId) conflict check
CreateManyKeepDuplicates(tbl, postId, subscribers) ==
    tbl \cup {NewSendRow(tbl, postId, s, subscribers) : s \in subscribers}

\* createMany that inserts nothing when any of its rows conflicts
CreateManyAllOrNothing(tbl, postId, subscribers) ==
    IF \E r \in tbl : r.postId = postId /\ r.subscriberId \in subscribers
      THEN tbl
      ELSE tbl \cup {NewSendRow(tbl, postId, s, subscribers) : s \in subscribers}

\* an expansion that puts the post's existing rows back to their initial values
CreateManyResettingExisting(tbl, postId, subscribers) ==
    LET fresh == {s \in subscribers :
                    ~ \E r \in tbl : r.postId = postId /\ r.subscriberId = s}
    IN {IF r.postId = postId
          THEN [r EXCEPT !.status = "QUEUED", !.attempts = 0, !.lastError = NoError]
          ELSE r : r \in tbl}
       \cup {NewSendRow(tbl, postId, s, fresh) : s \in fresh}

\* send.createMany({data, skipDuplicates: true}) under Send_postId_subscriberId_key
CreateManySkipDuplicates(tbl, postId, subscribers) ==
    LET fresh == {s \in subscribers :
                    ~ \E r \in tbl : r.postId = postId /\ r.subscriberId = s}
    IN tbl \cup {NewSendRow(tbl, postId, s, fresh) : s \in fresh}

Init ==
    /\ tasks = 1
    /\ schedulerStarted = TRUE
    /\ creq = NoConfirm
    /\ now = 0
    /\ faultsLeft = MaxFaults
    /\ posts = <<>>
    /\ subs = [e \in Emails |-> NoSub]
    /\ nextToken = 1
    /\ outbox = {}
    /\ created = [p \in PostIds |-> 0]
    /\ sends = {}
    /\ expansions = [p \in PostIds |-> 0]
    /\ audience = [p \in PostIds |-> {}]
    /\ pc = [p \in Procs |-> "idle"]
    /\ due = [p \in Procs |-> {}]
    /\ evs = [p \in Procs |-> {}]
    /\ batch = [p \in Procs |-> {}]
    /\ cur = [p \in Procs |-> NoSend]
    /\ res = [p \in Procs |-> NoError]
    /\ hpost = 0
    /\ hnow = 0

\* ------------------------------------------------------------- environment
AdvanceClock ==
    /\ now < MaxTime
    /\ now' = now + 1
    /\ UNCHANGED <<tasks, schedulerStarted, creq, faultsLeft, dbVars, procVars>>

\* a store statement or transaction either succeeds or throws
Faults(outcome, ok) ==
    (IF outcome = "ok" THEN 0 ELSE 1) + (IF ok THEN 0 ELSE 1)

StoreOp(ok) ==
    /\ ~ ok => faultsLeft > 0
    /\ faultsLeft' = IF ok THEN faultsLeft ELSE faultsLeft - 1

\* ------------------------------------------------- subscribe / confirm routes
\* POST /api/subscribe: upsert keyed on email
Subscribe(email) ==
    /\ nextToken <= MaxTokens
    /\ subs' = [subs EXCEPT ![email] = [status |-> "PENDING", token |-> nextToken]]
    /\ nextToken' = nextToken + 1
    /\ UNCHANGED <<tasks, schedulerStarted, creq, now, faultsLeft, posts, outbox, created, sends, expansions, audience, procVars>>

\* data: {status: "ACTIVE"} alone, the token kept
ConfirmedDataKeepingToken(sub) == [sub EXCEPT !.status = "ACTIVE"]

\* data: {status: "ACTIVE", token: null}
ConfirmedData(sub) == [sub EXCEPT !.status = "ACTIVE", !.token = NULL]

\* findUnique that finds a subscriber whatever token is asked for
FindByTokenAny(s, token) == {e \in Emails : s[e].status # "NONE"}

\* prisma.subscriber.findUnique({where: {token}}) under Subscriber_token_key
FindByToken(s, token) ==
    {e \in Emails : s[e].status # "NONE" /\ s[e].token = token}

\* GET /api/confirm?token=... with findUnique and update taken as one step:
\* the request when no subscribe commits between its two statements
Confirm(token) ==
    /\ \E e \in FindByToken(subs, token) :
         subs' = [subs EXCEPT ![e] = ConfirmedData(subs[e])]
    /\ UNCHANGED <<tasks, schedulerStarted, creq, now, faultsLeft, posts, nextToken, outbox, created, sends,
                   expansions, audience, procVars>>

\* GET /api/confirm, first part: 400 without a token, else findUnique by
\* token and 404 when no subscriber has it
ConfirmFind(token) ==
    /\ creq.pc = "idle"
    /\ creq' = IF token = NULL
                 THEN [pc |-> "idle", token |-> token, sub |-> 0, status |-> 400]
                 ELSE IF FindByToken(subs, token) = {}
                        THEN [pc |-> "idle", token |-> token, sub |-> 0, status |-> 404]
                        ELSE [pc |-> "update", token |-> token,
                              sub |-> CHOOSE e \in FindByToken(subs, token) : TRUE,
                              status |-> 0]
    /\ UNCHANGED <<tasks, schedulerStarted, now, faultsLeft, dbVars, procVars>>

\* GET /api/confirm, second part: update({where: {id: sub.id}, ...}) and 200
ConfirmUpdate ==
    /\ creq.pc = "update"
    /\ subs' = [subs EXCEPT ![creq.sub] = ConfirmedData(subs[creq.sub])]
    /\ creq' = [creq EXCEPT !.pc = "idle", !.status = 200]
    /\ UNCHANGED <<tasks, schedulerStarted, now, faultsLeft, posts, nextToken, outbox, created, sends,
                   expansions, audience, procVars>>

\* --------------------------------------------------------- process helpers
\* requests and cron callbacks that have started and not yet returned
InFlight == {p \in Procs : pc[p] # "idle"}

Idle(p) ==
    /\ pc' = [pc EXCEPT ![p] = "idle"]
    /\ due' = [due EXCEPT ![p] = {}]
    /\ evs' = [evs EXCEPT ![p] = {}]
    /\ batch' = [batch EXCEPT ![p] = {}]
    /\ cur' = [cur EXCEPT ![p] = NoSend]
    /\ res' = [res EXCEPT ![p] = NoError]
    /\ hpost' = IF p = Handler THEN 0 ELSE hpost
    /\ hnow' = IF p = Handler THEN 0 ELSE hnow

\* ------------------------------------------------------- POST /api/posts
\* request bodies: any status (none given: DRAFT); a scheduledAt is sent with
\* status SCHEDULED only, as the authoring form does
PostBodies ==
    {b \in [status : PostStatus, scheduledAt : {NULL} \cup Times] :
        b.scheduledAt # NULL => b.status = "SCHEDULED"}

\* prisma.post.create({data: {title, slug, markdown, html, status, scheduledAt}})
PostCreate(status, scheduledAt) ==
    /\ pc[Handler] = "idle"
    /\ status = "PUBLISHED" => Cardinality(InFlight) < MaxInFlight
    /\ Len(posts) < NumPosts
    /\ posts' = Append(posts, [status |-> status, scheduledAt |-> scheduledAt,
                               publishedAt |-> NULL])
    /\ IF status = "PUBLISHED"
         THEN /\ pc' = [pc EXCEPT ![Handler] = "createEvent"]
              /\ hpost' = Len(posts) + 1
              /\ hnow' = now
         ELSE UNCHANGED <<pc, hpost, hnow>>
    /\ UNCHANGED <<tasks, schedulerStarted, creq, now, faultsLeft, subs, nextToken, outbox, created, sends,
                   expansions, audience, due, evs, batch, cur, res>>

\* findMany without the `where: {status: "PUBLISHED"}` filter
GetPostsAnyStatus(ps) == DOMAIN ps

\* GET /api/posts: the posts it returns
GetPosts(ps) == {i \in DOMAIN ps : ps[i].status = "PUBLISHED"}

\* GET /api/posts/[slug]: the status it answers; a post's slug is unique
\* (Post_slug_key) and stands for the post
GetPostBySlug(ps, slug) ==
    IF \E i \in DOMAIN ps : i = slug /\ ps[i].status = "PUBLISHED" THEN 200 ELSE 404

\* prisma.outboxEvent.create(...) of the direct publish; a throw ends the request
PostCreateEvent(ok) ==
    /\ StoreOp(ok)
    /\ pc[Handler] = "createEvent"
    /\ IF ok /\ ~ UniqueKeyTaken(outbox, UniqueKey(hpost))
         THEN /\ outbox' = outbox \cup {PostPublishedEvent(hpost, created[hpost] + 1)}
              /\ created' = [created EXCEPT ![hpost] = @ + 1]
              /\ pc' = [pc EXCEPT ![Handler] = "stamp"]
              /\ UNCHANGED <<due, evs, batch, cur, res, hpost, hnow>>
         ELSE /\ Idle(Handler)
              /\ UNCHANGED <<outbox, created>>
    /\ UNCHANGED <<tasks, schedulerStarted, creq, now, posts, subs, nextToken, sends, expansions, audience>>

\* prisma.post.update({where: {id}, data: {publishedAt: now}})
PostStamp(ok) ==
    /\ StoreOp(ok)
    /\ pc[Handler] = "stamp"
    /\ IF ok
         THEN /\ posts' = [posts EXCEPT ![hpost].publishedAt = hnow]
              /\ pc' = [pc EXCEPT ![Handler] = "events"]
              /\ UNCHANGED <<due, evs, batch, cur, res, hpost, hnow>>
         ELSE /\ Idle(Handler)
              /\ UNCHANGED posts
    /\ UNCHANGED <<tasks, schedulerStarted, creq, now, subs, nextToken, outbox, created, sends,
                   expansions, audience>>

\* ------------------------------------------- startScheduler: cron callback
\* now = new Date(); duePosts = findMany(...); if (duePosts.length === 0) return
TickStart(t) ==
    /\ tasks > 0
    /\ pc[t] = "idle"
    /\ \A u \in Ticks : u < t => pc[u] # "idle"
    /\ Cardinality(InFlight) < MaxInFlight
    /\ DuePosts(posts, now) # {}
    /\ due' = [due EXCEPT ![t] = DuePosts(posts, now)]
    /\ pc' = [pc EXCEPT ![t] = "promote"]
    /\ UNCHANGED <<tasks, schedulerStarted, creq, now, faultsLeft, dbVars, evs, batch, cur, res, hpost, hnow>>

\* the two statements of the promotion run without a transaction: a throw of
\* the second leaves the update of the first in place
PromoteTxWithoutRollback(t, id, ok) ==
    /\ StoreOp(ok)
    /\ pc[t] = "promote"
    /\ id = First(due[t])
    /\ posts' = [posts EXCEPT ![id].status = PromotedStatus,
                              ![id].publishedAt = now]
    /\ IF ok /\ ~ UniqueKeyTaken(outbox, UniqueKey(id))
         THEN /\ outbox' = outbox \cup {PostPublishedEvent(id, created[id] + 1)}
              /\ created' = [created EXCEPT ![id] = @ + 1]
         ELSE UNCHANGED <<outbox, created>>
    /\ due' = [due EXCEPT ![t] = @ \ {id}]
    /\ pc' = [pc EXCEPT ![t] = IF due[t] = {id} THEN "events" ELSE "promote"]
    /\ UNCHANGED <<tasks, schedulerStarted, creq, now, subs, nextToken, sends, expansions, audience,
                   evs, batch, cur, res, hpost, hnow>>

\* one iteration of `for (const {id} of duePosts)`: the promotion transaction
PromoteTx(t, id, ok) ==
    /\ StoreOp(ok)
    /\ pc[t] = "promote"
    /\ id = First(due[t])
    /\ IF ok /\ ~ UniqueKeyTaken(outbox, UniqueKey(id))
         THEN /\ posts' = [posts EXCEPT ![id].status = PromotedStatus,
                                        ![id].publishedAt = now]
              /\ outbox' = outbox \cup {PostPublishedEvent(id, created[id] + 1)}
              /\ created' = [created EXCEPT ![id] = @ + 1]
         ELSE UNCHANGED <<posts, outbox, created>>
    /\ due' = [due EXCEPT ![t] = @ \ {id}]
    /\ pc' = [pc EXCEPT ![t] = IF due[t] = {id} THEN "events" ELSE "promote"]
    /\ UNCHANGED <<tasks, schedulerStarted, creq, now, subs, nextToken, sends, expansions, audience,
                   evs, batch, cur, res, hpost, hnow>>

\* ------------------------------ outbox expansion (tick and direct publish)
\* findMany with a `type` no event has
FindEventsOfOtherType(p, ok) ==
    /\ StoreOp(ok)
    /\ pc[p] = "events"
    /\ IF ok
         THEN /\ evs' = [evs EXCEPT ![p] = {e \in outbox : e.type = "PostScheduled"}]
              /\ pc' = [pc EXCEPT ![p] = IF evs'[p] = {} THEN "sends" ELSE "expand"]
              /\ UNCHANGED <<due, batch, cur, res, hpost, hnow>>
         ELSE Idle(p)
    /\ UNCHANGED <<tasks, schedulerStarted, creq, now, dbVars>>

\* events = prisma.outboxEvent.findMany({where: {type: "PostPublished"}})
FindEvents(p, ok) ==
    /\ StoreOp(ok)
    /\ pc[p] = "events"
    /\ IF ok
         THEN /\ evs' = [evs EXCEPT ![p] = {e \in outbox : e.type = "PostPublished"}]
              /\ pc' = [pc EXCEPT ![p] = IF evs'[p] = {} THEN "sends" ELSE "expand"]
              /\ UNCHANGED <<due, batch, cur, res, hpost, hnow>>
         ELSE Idle(p)
    /\ UNCHANGED <<tasks, schedulerStarted, creq, now, dbVars>>

\* createMany and delete run without a transaction: a throw of the delete
\* leaves the Send rows of the createMany in place
ExpandTxWithoutRollback(p, e, ok) ==
    /\ StoreOp(ok)
    /\ pc[p] = "expand"
    /\ e = FirstEvent(evs[p])
    /\ sends' = CreateManySkipDuplicates(sends, e.postId, ActiveSubscribers(subs))
    /\ IF ok /\ e \in outbox
         THEN /\ outbox' = outbox \ {e}
              /\ expansions' = [expansions EXCEPT ![e.postId] = @ + 1]
              /\ audience' = [audience EXCEPT ![e.postId] =
                                @ \cup {s \in Emails : subs[s].status = "ACTIVE"}]
         ELSE UNCHANGED <<outbox, expansions, audience>>
    /\ evs' = [evs EXCEPT ![p] = @ \ {e}]
    /\ pc' = [pc EXCEPT ![p] = IF evs[p] = {e} THEN "sends" ELSE "expand"]
    /\ UNCHANGED <<tasks, schedulerStarted, creq, now, posts, subs, nextToken, created,
                   due, batch, cur, res, hpost, hnow>>

\* deleteMany for delete: the transaction commits when the event is gone
ExpandTxIgnoringMissingEvent(p, e, ok) ==
    /\ StoreOp(ok)
    /\ pc[p] = "expand"
    /\ e = FirstEvent(evs[p])
    /\ IF ok
         THEN /\ sends' = CreateManySkipDuplicates(sends, e.postId, ActiveSubscribers(subs))
              /\ outbox' = outbox \ {e}
              /\ expansions' = [expansions EXCEPT ![e.postId] = @ + 1]
              /\ audience' = [audience EXCEPT ![e.postId] =
                                @ \cup {s \in Emails : subs[s].status = "ACTIVE"}]
         ELSE UNCHANGED <<sends, outbox, expansions, audience>>
    /\ evs' = [evs EXCEPT ![p] = @ \ {e}]
    /\ pc' = [pc EXCEPT ![p] = IF evs[p] = {e} THEN "sends" ELSE "expand"]
    /\ UNCHANGED <<tasks, schedulerStarted, creq, now, posts, subs, nextToken, created,
                   due, batch, cur, res, hpost, hnow>>

\* one iteration of `for (const event of events)`: the expansion transaction
ExpandTx(p, e, ok) ==
    /\ StoreOp(ok)
    /\ pc[p] = "expand"
    /\ e = FirstEvent(evs[p])
    /\ IF ok /\ e \in outbox
         THEN /\ sends' = CreateManySkipDuplicates(sends, e.postId, ActiveSubscribers(subs))
              /\ outbox' = outbox \ {e}
              /\ expansions' = [expansions EXCEPT ![e.postId] = @ + 1]
              /\ audience' = [audience EXCEPT ![e.postId] =
                                @ \cup {s \in Emails : subs[s].status = "ACTIVE"}]
         ELSE UNCHANGED <<sends, outbox, expansions, audience>>
    /\ evs' = [evs EXCEPT ![p] = @ \ {e}]
    /\ pc' = [pc EXCEPT ![p] = IF evs[p] = {e} THEN "sends" ELSE "expand"]
    /\ UNCHANGED <<tasks, schedulerStarted, creq, now, posts, subs, nextToken, created,
                   due, batch, cur, res, hpost, hnow>>

\* ------------------------------------ send processing (tick and direct publish)
Min(a, b) == IF a <= b THEN a ELSE b

\* findMany without the `where: {status: "QUEUED"}` filter
AnyStatus(tbl) == tbl

\* findMany that also asks for `subscriber: {status: "ACTIVE"}`
QueuedOfActiveSubscribers(tbl) ==
    {r \in tbl : r.status = "QUEUED" /\ subs[r.subscriberId].status = "ACTIVE"}

Queued(tbl) == {r \in tbl : r.status = "QUEUED"}

\* findMany without `take`
TakeAll(rows, n) == {rows}

\* position of row r among rows in id order
Rank(rows, r) == Cardinality({q \in rows : q.id <= r.id})

\* findMany({where: {status: "QUEUED"}, take: batchSize}) has no orderBy: all
\* the rows when there are at most n, else n rows that follow each other in id
\* order, from any first row
Take(rows, n) ==
    IF Cardinality(rows) <= n
      THEN {rows}
      ELSE {{r \in rows : Rank(rows, r) \in k .. k + n - 1} :
              k \in 1 .. Cardinality(rows) - n + 1}

FindSends(p, ok) ==
    /\ StoreOp(ok)
    /\ pc[p] = "sends"
    /\ IF ok /\ Queued(sends) # {}
         THEN /\ \E b \in Take(Queued(sends), batchSize) :
                   batch' = [batch EXCEPT ![p] = b]
              /\ pc' = [pc EXCEPT ![p] = "mail"]
              /\ UNCHANGED <<due, evs, cur, res, hpost, hnow>>
         ELSE Idle(p)
    /\ UNCHANGED <<tasks, schedulerStarted, creq, now, dbVars>>

\* the batch as one transaction: a failure undoes the SENT rows of the post
UpdateSendRollingBackBatch(tbl, id, data) ==
    {IF r.id = id
       THEN [r EXCEPT !.status = data.status,
                      !.attempts = IF data.attempts = NULL THEN @ ELSE data.attempts,
                      !.lastError = data.lastError]
       ELSE IF data.status # "SENT" /\ r.status = "SENT"
              THEN [r EXCEPT !.status = "QUEUED"]
              ELSE r : r \in tbl}

UpdateSend(tbl, id, data) ==
    {IF r.id = id
       THEN [r EXCEPT !.status = data.status,
                      !.attempts = IF data.attempts = NULL THEN @ ELSE data.attempts,
                      !.lastError = data.lastError]
       ELSE r : r \in tbl}

\* data: {status: "SENT"} alone: a row that was retried keeps its lastError
SentDataKeepingLastError ==
    [status |-> "SENT", attempts |-> NULL, lastError |-> PriorError]

SentData == [status |-> "SENT", attempts |-> NULL, lastError |-> NoError]

\* `>` for `>=` in the threshold test
FailedDataLateThreshold(send, errorMessage) ==
    [attempts |-> send.attempts + 1,
     lastError |-> errorMessage,
     status |-> IF send.attempts + 1 > FailThreshold THEN "FAILED" ELSE "QUEUED"]

\* the catch branch without `lastError: errorMessage`
FailedDataKeepsLastError(send, errorMessage) ==
    [attempts |-> send.attempts + 1,
     lastError |-> send.lastError,
     status |-> IF send.attempts + 1 >= FailThreshold THEN "FAILED" ELSE "QUEUED"]

FailedData(send, errorMessage) ==
    [attempts |-> send.attempts + 1,
     lastError |-> errorMessage,
     status |-> IF send.attempts + 1 >= FailThreshold THEN "FAILED" ELSE "QUEUED"]

NextSend(p) ==
    IF batch[p] = {}
      THEN Idle(p)
      ELSE /\ pc' = [pc EXCEPT ![p] = "mail"]
           /\ cur' = [cur EXCEPT ![p] = NoSend]
           /\ res' = [res EXCEPT ![p] = NoError]
           /\ UNCHANGED <<due, evs, batch, hpost, hnow>>

\* one iteration of `for (const send of sends)`: the mailer call, then the
\* update of its branch; a throw of the try-branch update enters the catch
ProcessSend(p, outcome, ok) ==
    /\ pc[p] = "mail"
    /\ Faults(outcome, ok) <= faultsLeft
    /\ faultsLeft' = faultsLeft - Faults(outcome, ok)
    /\ LET send == FirstSend(batch[p])
           rest == batch[p] \ {send}
       IN IF ok
            THEN /\ sends' = UpdateSend(sends, send.id,
                                IF outcome = "ok" THEN SentData
                                                  ELSE FailedData(send, outcome))
                 /\ IF rest = {}
                      THEN Idle(p)
                      ELSE /\ batch' = [batch EXCEPT ![p] = rest]
                           /\ UNCHANGED <<pc, due, evs, cur, res, hpost, hnow>>
            ELSE IF outcome = "ok"
                   THEN /\ cur' = [cur EXCEPT ![p] = send]
                        /\ res' = [res EXCEPT ![p] = StoreError]
                        /\ batch' = [batch EXCEPT ![p] = rest]
                        /\ pc' = [pc EXCEPT ![p] = "markFailed"]
                        /\ UNCHANGED <<sends, due, evs, hpost, hnow>>
                   ELSE /\ Idle(p)
                        /\ UNCHANGED sends
    /\ UNCHANGED <<tasks, schedulerStarted, creq, now, posts, subs, nextToken, outbox, created, expansions, audience>>

\* catch-branch update after the try-branch update threw; a throw ends the run
MarkFailed(p, ok) ==
    /\ StoreOp(ok)
    /\ pc[p] = "markFailed"
    /\ IF ok
         THEN /\ sends' = UpdateSend(sends, cur[p].id, FailedData(cur[p], res[p]))
              /\ NextSend(p)
         ELSE /\ Idle(p)
              /\ UNCHANGED sends
    /\ UNCHANGED <<tasks, schedulerStarted, creq, now, posts, subs, nextToken, outbox, created,
                   expansions, audience>>

\* ------------------------------------------------- starting the scheduler
\* startScheduler(prisma): a throw (of the mailer's constructor or of
\* cron.schedule) leaves no task behind; otherwise one more task is started
StartScheduler(ok) ==
    /\ tasks < MaxTasks
    /\ tasks' = IF ok THEN tasks + 1 ELSE tasks
    /\ UNCHANGED <<schedulerStarted, creq, now, faultsLeft, dbVars, procVars>>

\* a load of lib/prisma.ts: starts the scheduler unless the global flag is
\* set, and sets the flag unless startScheduler threw
LoadPrismaModule(ok) ==
    /\ schedulerStarted \/ tasks < MaxTasks
    /\ IF schedulerStarted
         THEN UNCHANGED <<tasks, schedulerStarted>>
         ELSE /\ tasks' = IF ok THEN tasks + 1 ELSE tasks
              /\ schedulerStarted' = ok
    /\ UNCHANGED <<creq, now, faultsLeft, dbVars, procVars>>

Next ==
    \/ AdvanceClock
    \/ \E e \in Emails : Subscribe(e)
    \/ \E k \in Tokens : Confirm(k)
    \/ \E body \in PostBodies : PostCreate(body.status, body.scheduledAt)
    \/ \E ok \in BOOLEAN : PostCreateEvent(ok)
    \/ \E ok \in BOOLEAN : PostStamp(ok)
    \/ \E t \in Ticks : TickStart(t)
    \/ \E t \in Ticks, id \in PostIds, ok \in BOOLEAN : PromoteTx(t, id, ok)
    \/ \E p \in Procs, ok \in BOOLEAN : FindEvents(p, ok)
    \/ \E p \in Procs, id \in PostIds, n \in 1 .. NumTicks, ok \in BOOLEAN :
          ExpandTx(p, PostPublishedEvent(id, n), ok)
    \/ \E p \in Procs, ok \in BOOLEAN : FindSends(p, ok)
    \/ \E p \in Procs, o \in {"ok"} \cup MailErrors, ok \in BOOLEAN :
          ProcessSend(p, o, ok)
    \/ \E p \in Procs, ok \in BOOLEAN : MarkFailed(p, ok)

Spec == Init /\ [][Next]_vars

\* ------------------------------------------------- retries of one Send row
\* The pipeline with a fixed audience of one ACTIVE subscriber and a larger
\* failure budget.  It starts from the empty store, or from the state after
\* post 1 was promoted and fanned out and the mailer failed `a` times for its
\* Send row on earlier invocations, which all have returned.
RetriedSend(a) ==
    [id |-> 1, postId |-> 1, subscriberId |-> 1, status |-> "QUEUED",
     attempts |-> a, lastError |-> PriorError]

InitRetry ==
    /\ tasks = 1
    /\ schedulerStarted = TRUE
    /\ creq = NoConfirm
    /\ now = 0
    /\ faultsLeft = MaxRetryFaults
    /\ subs = [e \in Emails |->
                 IF e = 1 THEN [status |-> "ACTIVE", token |-> NULL] ELSE NoSub]
    /\ nextToken = 2
    /\ outbox = {}
    /\ \/ /\ posts = <<>>
          /\ created = [p \in PostIds |-> 0]
          /\ sends = {}
          /\ expansions = [p \in PostIds |-> 0]
          /\ audience = [p \in PostIds |-> {}]
       \/ \E a \in 1 .. FailThreshold - 1 :
             /\ posts = <<[status |-> "PUBLISHED", scheduledAt |-> 0,
                           publishedAt |-> 0]>>
             /\ created = [p \in PostIds |-> IF p = 1 THEN 1 ELSE 0]
             /\ sends = {RetriedSend(a)}
             /\ expansions = [p \in PostIds |-> IF p = 1 THEN 1 ELSE 0]
             /\ audience = [p \in PostIds |-> IF p = 1 THEN {1} ELSE {}]
    /\ pc = [p \in Procs |-> "idle"]
    /\ due = [p \in Procs |-> {}]
    /\ evs = [p \in Procs |-> {}]
    /\ batch = [p \in Procs |-> {}]
    /\ cur = [p \in Procs |-> NoSend]
    /\ res = [p \in Procs |-> NoError]
    /\ hpost = 0
    /\ hnow = 0

NextRetry ==
    \/ AdvanceClock
    \/ \E body \in PostBodies : PostCreate(body.status, body.scheduledAt)
    \/ \E ok \in BOOLEAN : PostCreateEvent(ok)
    \/ \E ok \in BOOLEAN : PostStamp(ok)
    \/ \E t \in Ticks : TickStart(t)
    \/ \E t \in Ticks, id \in PostIds, ok \in BOOLEAN : PromoteTx(t, id, ok)
    \/ \E p \in Procs, ok \in BOOLEAN : FindEvents(p, ok)
    \/ \E p \in Procs, id \in PostIds, n \in 1 .. NumTicks, ok \in BOOLEAN :
          ExpandTx(p, PostPublishedEvent(id, n), ok)
    \/ \E p \in Procs, ok \in BOOLEAN : FindSends(p, ok)
    \/ \E p \in Procs, o \in {"ok"} \cup MailErrors, ok \in BOOLEAN :
          ProcessSend(p, o, ok)
    \/ \E p \in Procs, ok \in BOOLEAN : MarkFailed(p, ok)

SpecRetry == InitRetry /\ [][NextRetry]_vars

\* ------------------------------------------------- one batch of a backlog
\* A direct publish of post 1 to n ACTIVE subscribers has created, stamped and
\* expanded: n QUEUED sends, and the request is about to run the send
\* processing of its broadcast cycle.
InitBatch ==
    /\ tasks = 1
    /\ schedulerStarted = TRUE
    /\ creq = NoConfirm
    /\ now = 0
    /\ faultsLeft = MaxFaults
    /\ \E n \in 0 .. MaxBacklog :
         /\ subs = [e \in 1 .. n |-> [status |-> "ACTIVE", token |-> NULL]]
         /\ nextToken = n + 1
         /\ sends = {[id |-> i, postId |-> 1, subscriberId |-> i,
                      status |-> "QUEUED", attempts |-> 0,
                      lastError |-> NoError] : i \in 1 .. n}
         /\ audience = [p \in PostIds |-> IF p = 1 THEN 1 .. n ELSE {}]
    /\ posts = <<[status |-> "PUBLISHED", scheduledAt |-> NULL, publishedAt |-> 0]>>
    /\ outbox = {}
    /\ created = [p \in PostIds |-> IF p = 1 THEN 1 ELSE 0]
    /\ expansions = [p \in PostIds |-> IF p = 1 THEN 1 ELSE 0]
    /\ pc = [p \in Procs |-> IF p = Handler THEN "sends" ELSE "idle"]
    /\ due = [p \in Procs |-> {}]
    /\ evs = [p \in Procs |-> {}]
    /\ batch = [p \in Procs |-> {}]
    /\ cur = [p \in Procs |-> NoSend]
    /\ res = [p \in Procs |-> NoError]
    /\ hpost = 1
    /\ hnow = 0

NextBatch ==
    \/ \E p \in Procs, ok \in BOOLEAN : FindSends(p, ok)
    \/ \E p \in Procs, o \in {"ok"} \cup MailErrors, ok \in BOOLEAN :
          ProcessSend(p, o, ok)
    \/ \E p \in Procs, ok \in BOOLEAN : MarkFailed(p, ok)

SpecBatch == InitBatch /\ [][NextBatch]_vars

\* ----------------------------------------------- the scheduler left alone
\* Two posts are scheduled, for time 0 and for time 1, one subscriber is
\* ACTIVE, and from here on nobody publishes or subscribes: only the clock and
\* the cron callbacks run.  The timer keeps firing and every started callback
\* runs on: a callback that finds no due post returns at once and changes
\* nothing.
InitDrain ==
    /\ tasks = 1
    /\ schedulerStarted = TRUE
    /\ creq = NoConfirm
    /\ now = 0
    /\ faultsLeft = MaxFaults
    /\ posts = <<[status |-> "SCHEDULED", scheduledAt |-> 0, publishedAt |-> NULL],
                 [status |-> "SCHEDULED", scheduledAt |-> 1, publishedAt |-> NULL]>>
    /\ subs = [e \in Emails |->
                 IF e = 1 THEN [status |-> "ACTIVE", token |-> NULL] ELSE NoSub]
    /\ nextToken = 2
    /\ outbox = {}
    /\ created = [p \in PostIds |-> 0]
    /\ sends = {}
    /\ expansions = [p \in PostIds |-> 0]
    /\ audience = [p \in PostIds |-> {}]
    /\ pc = [p \in Procs |-> "idle"]
    /\ due = [p \in Procs |-> {}]
    /\ evs = [p \in Procs |-> {}]
    /\ batch = [p \in Procs |-> {}]
    /\ cur = [p \in Procs |-> NoSend]
    /\ res = [p \in Procs |-> NoError]
    /\ hpost = 0
    /\ hnow = 0

NextDrain ==
    \/ AdvanceClock
    \/ \E t \in Ticks : TickStart(t)
    \/ \E t \in Ticks, id \in PostIds, ok \in BOOLEAN : PromoteTx(t, id, ok)
    \/ \E p \in Procs, ok \in BOOLEAN : FindEvents(p, ok)
    \/ \E p \in Procs, id \in PostIds, n \in 1 .. NumTicks, ok \in BOOLEAN :
          ExpandTx(p, PostPublishedEvent(id, n), ok)
    \/ \E p \in Procs, ok \in BOOLEAN : FindSends(p, ok)
    \/ \E p \in Procs, o \in {"ok"} \cup MailErrors, ok \in BOOLEAN :
          ProcessSend(p, o, ok)
    \/ \E p \in Procs, ok \in BOOLEAN : MarkFailed(p, ok)

SpecDrain == InitDrain /\ [][NextDrain]_vars /\ WF_vars(NextDrain)

\* ------------------------------------------------ two runs in succession
\* Two posts are scheduled for time 0, one or more subscribers are ACTIVE, and
\* the tick of minute 0 has read its due posts.  It runs to its end, the minute passes,
\* and later ticks fire one after another: nobody publishes, subscribes or
\* confirms, no run overlaps another.  Every run at time 1 or later comes
\* after the run of minute 0.
InitTwice ==
    /\ tasks = 1
    /\ schedulerStarted = TRUE
    /\ creq = NoConfirm
    /\ now = 0
    /\ faultsLeft = MaxRetryFaults
    /\ posts = <<[status |-> "SCHEDULED", scheduledAt |-> 0, publishedAt |-> NULL],
                 [status |-> "SCHEDULED", scheduledAt |-> 0, publishedAt |-> NULL]>>
    /\ \E k \in 1 .. NumSubs :
          /\ subs = [e \in Emails |->
                       IF e <= k THEN [status |-> "ACTIVE", token |-> NULL] ELSE NoSub]
          /\ nextToken = k + 1
    /\ outbox = {}
    /\ created = [p \in PostIds |-> 0]
    /\ sends = {}
    /\ expansions = [p \in PostIds |-> 0]
    /\ audience = [p \in PostIds |-> {}]
    /\ pc = [p \in Procs |-> IF p = 1 THEN "promote" ELSE "idle"]
    /\ due = [p \in Procs |-> IF p = 1 THEN DuePosts(posts, now) ELSE {}]
    /\ evs = [p \in Procs |-> {}]
    /\ batch = [p \in Procs |-> {}]
    /\ cur = [p \in Procs |-> NoSend]
    /\ res = [p \in Procs |-> NoError]
    /\ hpost = 0
    /\ hnow = 0

NextTwice ==
    \/ AdvanceClock /\ pc[1] = "idle"
    \/ TickStart(1) /\ now >= 1
    \/ \E id \in PostIds, ok \in BOOLEAN : PromoteTx(1, id, ok)
    \/ \E ok \in BOOLEAN : FindEvents(1, ok)
    \/ \E id \in PostIds, n \in 1 .. NumTicks, ok \in BOOLEAN :
          ExpandTx(1, PostPublishedEvent(id, n), ok)
    \/ \E ok \in BOOLEAN : FindSends(1, ok)
    \/ \E o \in {"ok"} \cup MailErrors, ok \in BOOLEAN : ProcessSend(1, o, ok)
    \/ \E ok \in BOOLEAN : MarkFailed(1, ok)

SpecTwice == InitTwice /\ [][NextTwice]_vars

\* -------------------------------------------------- a process starting up
\* A fresh process over a store with one scheduled post and one ACTIVE
\* subscriber: no cron task yet, the global flag unset.  lib/prisma.ts is
\* loaded (once by every route module that imports it, again on a reload)
\* and startScheduler is called as its exported function allows.
InitStart ==
    /\ tasks = 0
    /\ schedulerStarted = FALSE
    /\ creq = NoConfirm
    /\ now = 0
    /\ faultsLeft = MaxFaults
    /\ posts = <<[status |-> "SCHEDULED", scheduledAt |-> 0, publishedAt |-> NULL]>>
    /\ subs = [e \in Emails |->
                 IF e = 1 THEN [status |-> "ACTIVE", token |-> NULL] ELSE NoSub]
    /\ nextToken = 2
    /\ outbox = {}
    /\ created = [p \in PostIds |-> 0]
    /\ sends = {}
    /\ expansions = [p \in PostIds |-> 0]
    /\ audience = [p \in PostIds |-> {}]
    /\ pc = [p \in Procs |-> "idle"]
    /\ due = [p \in Procs |-> {}]
    /\ evs = [p \in Procs |-> {}]
    /\ batch = [p \in Procs |-> {}]
    /\ cur = [p \in Procs |-> NoSend]
    /\ res = [p \in Procs |-> NoError]
    /\ hpost = 0
    /\ hnow = 0

NextStart ==
    \/ \E ok \in BOOLEAN : LoadPrismaModule(ok)
    \/ \E ok \in BOOLEAN : StartScheduler(ok)
    \/ NextDrain

SpecStart == InitStart /\ [][NextStart]_vars

\* -------------------------------------------------- subscribe and confirm
\* The subscribe and confirm routes alone, the confirm route with its two
\* store statements apart, so that a subscribe may commit between them.
\* Some of the emails have subscribed and confirmed before; the tokens they
\* used then are gone.
InitSubs ==
    /\ tasks = 1
    /\ schedulerStarted = TRUE
    /\ creq = NoConfirm
    /\ now = 0
    /\ faultsLeft = MaxFaults
    /\ posts = <<>>
    /\ \E confirmed \in SUBSET Emails :
          subs = [e \in Emails |->
                    IF e \in confirmed THEN [status |-> "ACTIVE", token |-> NULL]
                                       ELSE NoSub]
    /\ nextToken = 1
    /\ outbox = {}
    /\ created = [p \in PostIds |-> 0]
    /\ sends = {}
    /\ expansions = [p \in PostIds |-> 0]
    /\ audience = [p \in PostIds |-> {}]
    /\ pc = [p \in Procs |-> "idle"]
    /\ due = [p \in Procs |-> {}]
    /\ evs = [p \in Procs |-> {}]
    /\ batch = [p \in Procs |-> {}]
    /\ cur = [p \in Procs |-> NoSend]
    /\ res = [p \in Procs |-> NoError]
    /\ hpost = 0
    /\ hnow = 0

NextSubs ==
    \/ \E e \in Emails : Subscribe(e)
    \/ \E k \in Tokens \cup {NULL} : ConfirmFind(k)
    \/ ConfirmUpdate

SpecSubs == InitSubs /\ [][NextSubs]_vars

\* -------------------------------------- cycles one at a time, store sound
\* The POST handler and the cron callback, started only when no other
\* request or callback is in flight, with every store statement succeeding;
\* the mailer may fail.  The store starts as in the retry scenario.
NextSerial ==
    \/ AdvanceClock
    \/ \E body \in PostBodies :
          PostCreate(body.status, body.scheduledAt) /\ InFlight = {}
    \/ PostCreateEvent(TRUE)
    \/ PostStamp(TRUE)
    \/ TickStart(1) /\ InFlight = {}
    \/ \E id \in PostIds : PromoteTx(1, id, TRUE)
    \/ \E p \in {Handler, 1} : FindEvents(p, TRUE)
    \/ \E p \in {Handler, 1}, id \in PostIds, n \in 1 .. NumTicks :
          ExpandTx(p, PostPublishedEvent(id, n), TRUE)
    \/ \E p \in {Handler, 1} : FindSends(p, TRUE)
    \/ \E p \in {Handler, 1}, o \in {"ok"} \cup MailErrors : ProcessSend(p, o, TRUE)

SpecSerial == InitRetry /\ [][NextSerial]_vars

\* ================================================================== claims
SendsOf(tbl, postId, subscriberId) ==
    {r \in tbl : r.postId = postId /\ r.subscriberId = subscriberId}

HasSend(tbl, postId, subscriberId) == SendsOf(tbl, postId, subscriberId) # {}

\* C1: in every reachable state there is at most one Send row for any
\* (postId, subscriberId) pair.
C1_SendPairUnique ==
    \A r \in sends, q \in sends :
        (r.postId = q.postId /\ r.subscriberId = q.subscriberId) => r = q

\* a post whose event was expanded twice and that has a Send row
C1_Witness ==
    \E p \in PostIds : expansions[p] >= 2 /\ \E r \in sends : r.postId = p

\* C2: for every post P and every subscriber S that was ACTIVE when an
\* expansion of P's event committed, exactly one Send(P, S) row exists from
\* then on, however often expansion has run.
C2_ExactlyOneSendPerAudienceMember ==
    \A p \in PostIds : \A s \in audience[p] :
        Cardinality(SendsOf(sends, p, s)) = 1

\* an expansion that fanned out to two ACTIVE subscribers
C2_Witness ==
    \E p \in PostIds : Cardinality(audience[p]) = 2 /\ expansions[p] >= 1

\* the rows of tbl2 whose id is not in tbl1
NewRows(tbl1, tbl2) == {r \in tbl2 : ~ \E q \in tbl1 : q.id = r.id}

\* C3: a step creates Send rows only by expanding a post's event, only for
\* that post and for subscribers that are ACTIVE in the state it reads, each
\* QUEUED with attempts 0; afterwards every ACTIVE subscriber has a row for
\* the post and a subscriber that is not ACTIVE has none it did not have.
C3_ExpansionFansOutToActiveOnly ==
    [][ /\ \A r \in NewRows(sends, sends') :
             /\ expansions'[r.postId] = expansions[r.postId] + 1
             /\ subs[r.subscriberId].status = "ACTIVE"
             /\ r.status = "QUEUED"
             /\ r.attempts = 0
        /\ \A p \in PostIds :
             expansions'[p] # expansions[p] =>
               \A s \in Emails :
                 IF subs[s].status = "ACTIVE"
                   THEN HasSend(sends', p, s)
                   ELSE HasSend(sends', p, s) = HasSend(sends, p, s) ]_vars

\* an expansion ran while one subscriber was ACTIVE and the other PENDING:
\* the ACTIVE one has the post's only Send row
C3_Witness ==
    \E p \in PostIds : \E s \in Emails : \E u \in Emails :
        /\ expansions[p] = 1
        /\ audience[p] = {s}
        /\ u # s
        /\ subs[u].status = "PENDING"
        /\ {r.subscriberId : r \in {q \in sends : q.postId = p}} = {s}

\* C4: once an expansion of post P's event has committed, a subscriber
\* without a Send row for P (one that activates later) never gets one.
C4_NoFanOutAfterExpansion ==
    [][ \A p \in PostIds : \A s \in Emails :
          (expansions[p] > 0 /\ ~ HasSend(sends, p, s)) => ~ HasSend(sends', p, s) ]_vars

\* C5: no reachable state has a PUBLISHED post for which no OutboxEvent has
\* been created.
C5_PublishedHasEvent ==
    \A p \in DOMAIN posts : posts[p].status = "PUBLISHED" => created[p] >= 1

\* C6: in every reachable state a post has publishedAt set if and only if
\* its status is PUBLISHED.
C6_PublishedAtIffPublished ==
    \A p \in DOMAIN posts :
        (posts[p].publishedAt # NULL) <=> (posts[p].status = "PUBLISHED")

\* C7: once a post's publishedAt has a value, no later step changes it.
C7_PublishedAtWrittenOnce ==
    [][ \A p \in DOMAIN posts :
          posts[p].publishedAt # NULL =>
            posts'[p].publishedAt = posts[p].publishedAt ]_vars

\* C8: at most one OutboxEvent is ever created for a post.
C8_AtMostOneEventPerPost ==
    \A p \in PostIds : created[p] <= 1

\* C9: the only post status changes are DRAFT to SCHEDULED, DRAFT to
\* PUBLISHED and SCHEDULED to PUBLISHED; a PUBLISHED post keeps its status.
C9_PostStatusMonotonic ==
    [][ \A p \in DOMAIN posts :
          \/ posts'[p].status = posts[p].status
          \/ <<posts[p].status, posts'[p].status>> \in
               {<<"DRAFT", "SCHEDULED">>, <<"DRAFT", "PUBLISHED">>,
                <<"SCHEDULED", "PUBLISHED">>} ]_vars

\* a promoted post that a second promotion pass has written again
C9_Witness ==
    \E p \in DOMAIN posts :
        /\ posts[p].status = "PUBLISHED"
        /\ posts[p].scheduledAt # NULL
        /\ created[p] >= 2

\* tick t runs its promotion transaction for post id in this step
PromoterHandles(t, id) ==
    /\ pc[t] = "promote"
    /\ due[t] # {}
    /\ id = First(due[t])
    /\ due'[t] = due[t] \ {id}

\* C10: a Promoter pass over a SCHEDULED post with scheduledAt <= now, its
\* transaction not failing, leaves the post PUBLISHED with publishedAt
\* stamped and creates exactly one OutboxEvent for it, of type PostPublished
\* with uniqueKey post:<postId>.
C10_PromotionPublishesAndEmitsOneEvent ==
    [][ \A t \in Ticks : \A id \in DOMAIN posts :
          ( /\ PromoterHandles(t, id)
            /\ posts[id].status = "SCHEDULED"
            /\ faultsLeft' = faultsLeft )
          => /\ posts[id].scheduledAt # NULL /\ posts[id].scheduledAt <= now
             /\ posts'[id].status = "PUBLISHED"
             /\ posts'[id].publishedAt = now
             /\ created'[id] = created[id] + 1
             /\ \E e \in outbox' :
                  /\ outbox' = outbox \cup {e}
                  /\ e \notin outbox
                  /\ e.type = "PostPublished"
                  /\ e.postId = id
                  /\ e.uniqueKey = <<"post", id>>
             /\ Cardinality({e \in outbox' : e.postId = id}) = 1 ]_vars

\* a promoted post whose single OutboxEvent is waiting in the outbox
C10_Witness ==
    \E p \in DOMAIN posts :
        /\ posts[p].status = "PUBLISHED"
        /\ posts[p].scheduledAt # NULL
        /\ posts[p].publishedAt # NULL
        /\ created[p] = 1
        /\ Cardinality({e \in outbox : e.postId = p}) = 1

\* C11: the Promoter never publishes early: a step moves a post from SCHEDULED
\* to PUBLISHED, and a Promoter pass writes a post, only when the post's
\* scheduledAt is set and not after the current time, the publishedAt it
\* writes is not before scheduledAt, and a SCHEDULED post whose scheduledAt is
\* in the future is left as it is.
C11_PromoterNeverPublishesEarly ==
    [][ \A id \in DOMAIN posts :
          /\ ( \/ posts[id].status = "SCHEDULED" /\ posts'[id].status # "SCHEDULED"
               \/ \E t \in Ticks : PromoterHandles(t, id) /\ posts'[id] # posts[id] )
             => /\ posts[id].scheduledAt # NULL
                /\ posts[id].scheduledAt <= now
                /\ posts'[id].status = "PUBLISHED"
                /\ posts'[id].publishedAt # NULL
                /\ posts'[id].publishedAt >= posts[id].scheduledAt
          /\ ( /\ posts[id].status = "SCHEDULED"
               /\ posts[id].scheduledAt # NULL
               /\ posts[id].scheduledAt > now )
             => posts'[id] = posts[id] ]_vars

\* a pass promoted post 2 (due at 0) while the older post 1, due at 1, was
\* in the future: post 1 is still SCHEDULED
C11_Witness ==
    /\ tasks = 1
    /\ schedulerStarted = TRUE
    /\ creq = NoConfirm
    /\ now = 0
    /\ Len(posts) = 2
    /\ posts[1].status = "SCHEDULED" /\ posts[1].scheduledAt = 1
    /\ posts[1].publishedAt = NULL
    /\ posts[2].status = "PUBLISHED" /\ posts[2].scheduledAt = 0
    /\ posts[2].publishedAt = 0

\* C12: a promotion transaction that fails (a store failure, or a uniqueKey
\* collision) changes neither the Post table nor the OutboxEvent table, so a
\* SCHEDULED post stays SCHEDULED with publishedAt unset and is due again; the
\* pass goes on with the other due posts; and a pass that starts reads every
\* SCHEDULED post whose scheduledAt has passed.
C12_FailedPromotionLeavesPostScheduled ==
    [][ /\ \A t \in Ticks : \A id \in DOMAIN posts :
             ( /\ PromoterHandles(t, id)
               /\ \/ faultsLeft' # faultsLeft
                  \/ \E e \in outbox : e.uniqueKey = <<"post", id>> )
             => /\ posts' = posts
                /\ outbox' = outbox
                /\ created' = created
                /\ posts[id].status = "SCHEDULED" =>
                     /\ posts'[id].status = "SCHEDULED"
                     /\ posts'[id].publishedAt = NULL
                     /\ posts'[id].scheduledAt <= now'
                /\ due[t] # {id} =>
                     /\ pc'[t] = "promote"
                     /\ due'[t] = due[t] \ {id}
        /\ \A t \in Ticks :
             (pc[t] = "idle" /\ pc'[t] = "promote")
             => due'[t] = {i \in DOMAIN posts :
                             /\ posts[i].status = "SCHEDULED"
                             /\ posts[i].scheduledAt # NULL
                             /\ posts[i].scheduledAt <= now} ]_vars

\* posts 1 and 2 were both due at 0; the one failure of the run hit the
\* promotion of post 1, which is still SCHEDULED, and the pass went on and
\* promoted post 2
C12_Witness ==
    /\ Len(posts) = 2
    /\ faultsLeft = 0
    /\ posts[1].status = "SCHEDULED" /\ posts[1].scheduledAt = 0
    /\ posts[1].publishedAt = NULL
    /\ created[1] = 0
    /\ posts[2].status = "PUBLISHED" /\ posts[2].scheduledAt = 0
    /\ created[2] = 1

\* process p runs its expansion transaction for event e in this step
ExpanderHandles(p, e) ==
    /\ pc[p] = "expand"
    /\ evs[p] # {}
    /\ e = FirstEvent(evs[p])
    /\ evs'[p] = evs[p] \ {e}

C14_TerminalSendsNeverChange ==
    [][ \A r \in sends : r.status \in {"SENT", "FAILED"} => r \in sends' ]_vars

\* the ids of a set of Send rows
Ids(rows) == {r.id : r \in rows}

\* C15: a processQueued invocation selects only rows that are QUEUED in the
\* table when it starts, calls the mailer only for and writes only rows it
\* selected, so a row that was SENT or FAILED when it started is never
\* selected, mailed or changed by it.
C15_ProcessorSelectsOnlyQueued ==
    [][ /\ \A p \in Procs :
             /\ (pc[p] = "sends" /\ pc'[p] = "mail")
                  => \A r \in batch'[p] : r \in sends /\ r.status = "QUEUED"
             /\ pc[p] # "sends" => batch'[p] \subseteq batch[p]
             /\ cur'[p] # cur[p] => cur'[p] \in batch[p] \cup {NoSend}
        /\ \A r \in sends :
             r \notin sends' =>
               \E p \in Procs :
                 /\ pc[p] \in {"mail", "markFailed"}
                 /\ <<pc'[p], batch'[p], cur'[p]>> # <<pc[p], batch[p], cur[p]>>
                 /\ r.id \in Ids(batch[p]) \cup {cur[p].id} ]_vars

\* an invocation that started when one row was already SENT selected only the
\* other row, and the SENT row is as it was
C15_Witness ==
    \E p \in Procs : \E r \in sends :
        /\ pc[p] = "mail"
        /\ batch[p] # {}
        /\ batch[p] \subseteq sends
        /\ r.status = "SENT"
        /\ r.id \notin Ids(batch[p])
        /\ \A q \in Procs \ {p} : pc[q] = "idle"

\* process p's mailer call fails in this step and the update of the catch
\* branch commits
MailFails(p) ==
    /\ pc[p] = "mail"
    /\ batch[p] # {}
    /\ batch'[p] # batch[p]
    /\ faultsLeft' = faultsLeft - 1
    /\ pc'[p] # "markFailed"

\* C20: a mailer failure for one row of a batch changes no other Send row (a
\* SENT row stays SENT) and the invocation goes on with the remaining rows of
\* the batch.
C20_BatchRowsCommitIndependently ==
    [][ \A p \in Procs :
          MailFails(p) =>
            /\ \A r \in sends : r.id # FirstSend(batch[p]).id => r \in sends'
            /\ batch[p] # {FirstSend(batch[p])} =>
                 /\ pc'[p] = "mail"
                 /\ batch'[p] = batch[p] \ {FirstSend(batch[p])} ]_vars

\* a batch of at least three rows: the first is SENT, the mailer failed for the
\* second, and the invocation is about to mail the next one
C20_Witness ==
    \E p \in Procs : \E r1 \in sends : \E r2 \in sends :
        /\ pc[p] = "mail"
        /\ batch[p] # {}
        /\ r1.id < r2.id
        /\ r2.id < FirstSend(batch[p]).id
        /\ r1.status = "SENT"
        /\ r2.status = "QUEUED" /\ r2.attempts = 1 /\ r2.lastError \in MailErrors
        /\ \A q \in Procs \ {p} : pc[q] = "idle"

\* the row of the Send table with the given id
RowOf(tbl, id) == CHOOSE r \in tbl : r.id = id

\* C16: every failed mailer call for a Send row, its catch update committing,
\* increases the row's attempts counter by exactly 1, also when processor
\* invocations overlap on the row.
C16_AttemptsCountsEveryMailerFailure ==
    [][ \A p \in Procs :
          MailFails(p) =>
            RowOf(sends', FirstSend(batch[p]).id).attempts =
              RowOf(sends, FirstSend(batch[p]).id).attempts + 1 ]_vars

\* C17: a FAILED Send has attempts = 5, a QUEUED Send has attempts < 5, no
\* Send has attempts > 5, and a mailer failure that brings attempts to 1..4
\* leaves the row QUEUED.
C17_FailedExactlyAtFiveAttempts ==
    /\ [](\A r \in sends :
            /\ r.attempts \in 0 .. 5
            /\ r.status = "FAILED" => r.attempts = 5
            /\ r.status = "QUEUED" => r.attempts < 5)
    /\ [][ \A p \in Procs :
             ( /\ MailFails(p)
               /\ RowOf(sends', FirstSend(batch[p]).id).attempts \in 1 .. 4 )
             => RowOf(sends', FirstSend(batch[p]).id).status = "QUEUED" ]_vars

\* one row went FAILED at its fifth failure while another, failed once, is
\* still QUEUED
C17_Witness ==
    \E r \in sends : \E q \in sends :
        /\ r.status = "FAILED" /\ r.attempts = 5
        /\ q.status = "QUEUED" /\ q.attempts = 1 /\ q.lastError \in MailErrors

\* C18: no step decreases the attempts counter of a Send row, and a new row
\* starts at 0.
C18_AttemptsMonotonic ==
    [][ \A q \in sends' :
          IF \E r \in sends : r.id = q.id
            THEN q.attempts >= RowOf(sends, q.id).attempts
            ELSE q.attempts = 0 ]_vars

\* C19: a mailer failure for a row that no other invocation has written since
\* it was selected, with attempts = k - 1 < 5, leaves the row with attempts = k
\* and lastError the reason of this failure, QUEUED if k < 5 and FAILED if
\* k = 5; so five consecutive failing invocations end in FAILED with
\* attempts = 5.
C19_FiveConsecutiveFailuresEndFailed ==
    [][ \A p \in Procs :
          (MailFails(p) /\ FirstSend(batch[p]) \in sends)
          => \E reason \in MailErrors :
               RowOf(sends', FirstSend(batch[p]).id) =
                 [FirstSend(batch[p]) EXCEPT
                    !.attempts = @ + 1,
                    !.lastError = reason,
                    !.status = IF FirstSend(batch[p]).attempts + 1 = 5
                                 THEN "FAILED" ELSE "QUEUED"] ]_vars

\* after two failures of this run the row that had failed three times before
\* is FAILED with attempts = 5 and the reason of the last failure
C19_Witness ==
    /\ faultsLeft = MaxRetryFaults - 2
    /\ \E r \in sends :
         /\ r.id = 1
         /\ r.status = "FAILED"
         /\ r.attempts = 5
         /\ r.lastError \in MailErrors
    /\ \A p \in Procs : pc[p] = "idle"

\* a step of process p's send loop throws out of the invocation: the update of
\* the catch branch fails
SendStepThrows(p) ==
    \/ /\ pc[p] = "mail"
       /\ batch'[p] # batch[p]
       /\ faultsLeft' = faultsLeft - 2
    \/ /\ pc[p] = "markFailed"
       /\ pc'[p] = "idle"
       /\ faultsLeft' = faultsLeft - 1

\* C21: no failure while handling one post, one event or one send ends the
\* invocation: the promotion loop and the expansion loop go on to their next
\* item or the next stage, and no step of the send loop throws out of it.
C21_ItemFailureNeverAbortsInvocation ==
    [][ \A p \in Procs :
          /\ (pc[p] = "promote" /\ pc'[p] # "promote") => pc'[p] = "events"
          /\ (pc[p] = "expand" /\ pc'[p] # "expand") => pc'[p] = "sends"
          /\ ~ SendStepThrows(p) ]_vars

\* C27: an expansion transaction for an event that an overlapping invocation
\* has already expanded and deleted changes nothing in the store (no Send row
\* for a subscriber that has become ACTIVE since), and an event is deleted at
\* most once: a post has no more committed expansions than events created.
C27_OverlappingExpansionIsNoOp ==
    /\ [](\A p \in PostIds : expansions[p] <= created[p])
    /\ [][ \A p \in Procs : \A e \in evs[p] :
             (ExpanderHandles(p, e) /\ e \notin outbox)
             => /\ sends' = sends
                /\ outbox' = outbox
                /\ expansions' = expansions
                /\ audience' = audience ]_vars

\* two invocations read the same event; one has expanded and deleted it, the
\* other is about to run its transaction for it, and a subscriber that has
\* become ACTIVE meanwhile has no Send row for the post
C27_Witness ==
    \E p \in Procs : \E s \in Emails :
        /\ pc[p] = "expand"
        /\ evs[p] # {}
        /\ FirstEvent(evs[p]) \notin outbox
        /\ expansions[FirstEvent(evs[p]).postId] = 1
        /\ created[FirstEvent(evs[p]).postId] = 1
        /\ subs[s].status = "ACTIVE"
        /\ ~ HasSend(sends, FirstEvent(evs[p]).postId, s)
        /\ \E r \in sends : r.postId = FirstEvent(evs[p]).postId

\* process p's mailer call succeeds in this step
MailSucceeds(p) ==
    /\ pc[p] = "mail"
    /\ batch[p] # {}
    /\ batch'[p] # batch[p]
    /\ \/ faultsLeft' = faultsLeft
       \/ pc'[p] = "markFailed"

\* C28: the mailer succeeds at most once for a Send row: a row is SENT only
\* after a successful mailer call for it, and no mailer call succeeds for a
\* row that is SENT already.
C28_AtMostOneDeliveryPerSend ==
    [][ \A p \in Procs :
          MailSucceeds(p) =>
            RowOf(sends, FirstSend(batch[p]).id).status # "SENT" ]_vars

\* the POST handler returns its response (no statement threw) in this step
HandlerReturns ==
    /\ pc'[Handler] = "idle"
    /\ \/ pc[Handler] \in {"sends", "markFailed"} /\ faultsLeft' = faultsLeft
       \/ pc[Handler] = "mail" /\ faultsLeft' >= faultsLeft - 1

\* the state in which the direct publish of post hpost returns: its event is
\* expanded and deleted, every subscriber ACTIVE at an expansion has a Send
\* row, and the sends of its batch have all been attempted
BroadcastCycleDone ==
    /\ ~ \E e \in outbox' : e.postId = hpost
    /\ expansions'[hpost] >= 1
    /\ \A s \in audience'[hpost] : HasSend(sends', hpost, s)
    /\ pc[Handler] = "sends" => Queued(sends) = {}
    /\ pc[Handler] = "mail" => batch[Handler] = {FirstSend(batch[Handler])}
    /\ pc[Handler] = "markFailed" => batch[Handler] = {}

WithStatus(st) == {r \in sends : r.status = st}

\* C22: one processQueued invocation selects min(N, 25) of the N QUEUED rows
\* and calls the mailer once for each of them, so for at most 25 rows; when
\* nothing fails it ends with min(N, 25) rows SENT and the other rows QUEUED:
\* 25 SENT and 15 QUEUED for N = 40.
C22_BatchOfAtMostTwentyFive ==
    /\ [][ \A p \in Procs :
             /\ (pc[p] = "sends" /\ pc'[p] = "mail")
                  => /\ batch'[p] \subseteq WithStatus("QUEUED")
                     /\ Cardinality(batch'[p]) =
                          Min(Cardinality(WithStatus("QUEUED")), 25)
             /\ (pc[p] = "mail" /\ batch'[p] # batch[p])
                  => /\ batch'[p] \subseteq batch[p]
                     /\ Cardinality(batch'[p]) < Cardinality(batch[p]) ]_vars
    /\ []( (pc[Handler] = "idle" /\ faultsLeft = MaxFaults)
            => /\ Cardinality(WithStatus("SENT")) = Min(Cardinality(sends), 25)
               /\ Cardinality(WithStatus("QUEUED")) =
                    Cardinality(sends) - Min(Cardinality(sends), 25) )

\* of 40 QUEUED sends one invocation has left 25 SENT and 15 QUEUED
C22_Witness ==
    /\ pc[Handler] = "idle"
    /\ Cardinality(sends) = 40
    /\ Cardinality(WithStatus("SENT")) = 25
    /\ Cardinality(WithStatus("QUEUED")) = 15
    /\ \A r \in sends : r.attempts = 0

\* the cron callback may fire in slot t
TickMayFire(t) ==
    /\ pc[t] = "idle"
    /\ \A u \in Ticks : u < t => pc[u] # "idle"
    /\ Cardinality(InFlight) < MaxInFlight

\* C23: a scheduler tick runs the Promoter and then the Broadcast Cycle, in
\* that order, whether or not a post is due: the stages of a tick follow each
\* other (promotion, events, expansion, sends, mailing), and in every state
\* where the callback may fire it goes on past its duePosts query into these
\* stages.
C23_EveryTickRunsPromoterThenCycle ==
    /\ [][ \A t \in Ticks :
             pc'[t] # pc[t] =>
               <<pc[t], pc'[t]>> \in
                 {<<"idle", "promote">>, <<"promote", "events">>,
                  <<"events", "expand">>, <<"events", "sends">>,
                  <<"expand", "sends">>, <<"sends", "mail">>,
                  <<"mail", "markFailed">>, <<"markFailed", "mail">>,
                  <<"events", "idle">>, <<"sends", "idle">>,
                  <<"mail", "idle">>, <<"markFailed", "idle">>} ]_vars
    /\ [](\A t \in Ticks : TickMayFire(t) => ENABLED TickStart(t))

\* C24: with the scheduler ticking and nothing further published or due, every
\* Send that is QUEUED eventually is SENT or FAILED.
C24_BacklogDrainsByTicksAlone ==
    \A i \in 1 .. NumPosts * NumSubs :
        (\E r \in sends : r.id = i /\ r.status = "QUEUED")
        ~> (\E r \in sends : r.id = i /\ r.status \in {"SENT", "FAILED"})

\* C25: with the scheduler ticking and store transactions succeeding in the
\* end, every OutboxEvent that exists is eventually expanded and deleted.
C25_EveryEventEventuallyExpanded ==
    \A p \in PostIds :
        (\E e \in outbox : e.postId = p) ~> (~ \E e \in outbox : e.postId = p)

\* the step of process p calls the mailer for the first send of its batch
MailerCalled(p) == pc[p] = "mail" /\ batch'[p] # batch[p]

C29_AtMostOneTickTimer == tasks <= 1

\* C31: Send rows are created only by an expansion step, changed only by a
\* send-processing step and never deleted; an expansion, also a repeated one
\* for the same post, leaves every existing row as it is.
C31_SendsCreatedByExpanderMutatedByProcessor ==
    [][ /\ Ids(sends) \subseteq Ids(sends')
        /\ (\E p \in Procs : \E e \in evs[p] : ExpanderHandles(p, e))
              => sends \subseteq sends'
        /\ NewRows(sends, sends') # {} =>
              \E p \in Procs : \E e \in evs[p] :
                  /\ ExpanderHandles(p, e)
                  /\ \A r \in NewRows(sends, sends') :
                        /\ r.postId = e.postId
                        /\ subs[r.subscriberId].status = "ACTIVE"
                        /\ r.status = "QUEUED" /\ r.attempts = 0
        /\ (\E r \in sends : r \notin sends') =>
              \E p \in Procs :
                  /\ pc[p] \in {"mail", "markFailed"}
                  /\ <<pc'[p], batch'[p], cur'[p]>> # <<pc[p], batch[p], cur[p]>> ]_vars

\* a second event of post 1 is about to be expanded while a row of the first
\* expansion is already SENT and another subscriber has become ACTIVE
C31_Witness ==
    \E p \in Procs : \E s \in Emails :
        /\ pc[p] = "expand"
        /\ evs[p] # {}
        /\ FirstEvent(evs[p]) \in outbox
        /\ FirstEvent(evs[p]).postId = 1
        /\ expansions[1] >= 1
        /\ \E r \in sends : r.postId = 1 /\ r.status = "SENT"
        /\ subs[s].status = "ACTIVE" /\ ~ HasSend(sends, 1, s)

\* C32: in every state a subscriber has a confirmation token if and only if
\* its status is PENDING; a subscribe leaves the subscriber PENDING with a
\* token, a confirmation leaves it ACTIVE without one.
C32_TokenIffPending ==
    /\ [](\A e \in Emails :
            subs[e].status # "NONE" =>
              (subs[e].token # NULL <=> subs[e].status = "PENDING"))
    /\ [][ \A e \in Emails :
             subs'[e] # subs[e] =>
               \/ /\ subs'[e].status = "PENDING"
                  /\ subs'[e].token = nextToken
                  /\ nextToken' = nextToken + 1
               \/ /\ subs'[e] = [status |-> "ACTIVE", token |-> NULL]
                  /\ creq.pc = "update" /\ creq.sub = e
                  /\ creq'.status = 200 ]_vars

\* a confirmation has answered 200 for one subscriber, which is ACTIVE without
\* a token, while another one is PENDING with its token
C32_Witness ==
    \E e, f \in Emails :
        /\ e # f
        /\ creq.status = 200 /\ creq.sub = e
        /\ subs[e] = [status |-> "ACTIVE", token |-> NULL]
        /\ subs[f].status = "PENDING" /\ subs[f].token # NULL

\* C35: a confirmation token is single-use and only the latest one is valid:
\* a request without a token is answered 400, one with a token that no
\* subscriber holds (unknown, used or replaced by a later subscribe) 404, both
\* without changing any subscriber; and a confirmation makes a subscriber
\* ACTIVE only with the token that subscriber holds.
C35_OnlyLatestTokenConfirms ==
    [][ /\ (creq.pc = "idle" /\ creq' # creq) =>
              /\ creq'.token = NULL => creq'.status = 400
              /\ (creq'.token # NULL /\ FindByToken(subs, creq'.token) = {})
                    => creq'.status = 404
              /\ creq'.status \in {400, 404} => creq'.pc = "idle"
              /\ subs' = subs /\ nextToken' = nextToken
        /\ \A e \in Emails :
              (subs'[e].status = "ACTIVE" /\ subs[e].status # "ACTIVE")
                => subs[e].token = creq.token ]_vars

\* C33: only PUBLISHED posts are readable: GET /api/posts returns exactly the
\* PUBLISHED posts, GET /api/posts/[slug] answers 404 for a DRAFT or SCHEDULED
\* post, and a SCHEDULED post becomes readable only in the step that commits
\* its promotion.
C33_OnlyPublishedPostsReadable ==
    /\ [](\A i \in DOMAIN posts :
            /\ i \in GetPosts(posts) <=> posts[i].status = "PUBLISHED"
            /\ posts[i].status \in {"DRAFT", "SCHEDULED"}
                  => GetPostBySlug(posts, i) = 404
            /\ posts[i].status = "PUBLISHED" => GetPostBySlug(posts, i) = 200)
    /\ [][ \A i \in DOMAIN posts :
             (i \notin GetPosts(posts) /\ i \in GetPosts(posts')) =>
               /\ posts[i].status = "SCHEDULED"
               /\ \E t \in Ticks : PromoterHandles(t, i)
               /\ created'[i] = created[i] + 1 ]_vars

\* a tick is about to promote a due post: it is not readable yet, while a
\* post published before is
C33_Witness ==
    \E t \in Ticks : \E i \in DOMAIN posts :
        /\ pc[t] = "promote"
        /\ i \in due[t]
        /\ posts[i].status = "SCHEDULED"
        /\ posts[i].scheduledAt <= now
        /\ i \notin GetPosts(posts)
        /\ GetPostBySlug(posts, i) = 404
        /\ GetPosts(posts) # {}

\* C34: a post has a scheduledAt if and only if its status is or has been
\* SCHEDULED: no SCHEDULED post is without a scheduledAt and no DRAFT post has
\* one, so that every SCHEDULED post becomes due.
C34_ScheduledAtIffEverScheduled ==
    \A i \in DOMAIN posts :
        /\ posts[i].status = "SCHEDULED" => posts[i].scheduledAt # NULL
        /\ posts[i].status = "DRAFT" => posts[i].scheduledAt = NULL
        /\ posts[i].scheduledAt # NULL => posts[i].status \in {"SCHEDULED", "PUBLISHED"}

\* C36: attempts and lastError of a Send change only in a step that records a
\* failed mailer call for that row: a row whose mailer call succeeded is not
\* charged an attempt, also when the write of SENT fails.
C36_AttemptsOnlyOnMailerFailure ==
    [][ \A r \in sends : \A q \in sends' :
          (q.id = r.id /\ (q.attempts # r.attempts \/ q.lastError # r.lastError))
            => \E p \in Procs : MailFails(p) /\ FirstSend(batch[p]).id = r.id ]_vars

\* C37: in every state, under any interleaving, a SENT Send has no lastError
\* and a FAILED Send has one.
C37_LastErrorMatchesStatus ==
    \A r \in sends :
        /\ r.status = "SENT" => r.lastError = NoError
        /\ r.status = "FAILED" => r.lastError # NoError

\* two overlapping invocations held the same row: one recorded its fifth
\* failure (FAILED, lastError set), the other then recorded SENT
C37_Witness ==
    \E r \in sends :
        /\ r.status = "SENT"
        /\ r.attempts >= FailThreshold
        /\ r.lastError = NoError

\* C38: no email is sent about a post that is not PUBLISHED: a DRAFT or
\* SCHEDULED post never has an OutboxEvent or a Send row, rows are created
\* only for a PUBLISHED post, and every mailer call is for a row of a
\* PUBLISHED post.
C38_OnlyPublishedPostsAreMailed ==
    /\ [](/\ \A e \in outbox : posts[e.postId].status = "PUBLISHED"
          /\ \A r \in sends : posts[r.postId].status = "PUBLISHED")
    /\ [][ /\ \A r \in NewRows(sends, sends') :
                posts[r.postId].status = "PUBLISHED"
           /\ \A p \in Procs :
                MailerCalled(p) =>
                  posts[FirstSend(batch[p]).postId].status = "PUBLISHED" ]_vars

\* a row of a published post is about to be mailed while another post is
\* SCHEDULED and due, with no event and no row
C38_Witness ==
    \E p \in Procs : \E i \in DOMAIN posts :
        /\ pc[p] = "mail"
        /\ batch[p] # {}
        /\ posts[i].status = "SCHEDULED"
        /\ posts[i].scheduledAt # NULL /\ posts[i].scheduledAt <= now
        /\ ~ \E r \in sends : r.postId = i
        /\ ~ \E e \in outbox : e.postId = i

\* C39: the send processing selects on the status of the Send alone: a
\* successful selection takes the QUEUED rows whatever the status of their
\* subscribers is now, and ends the invocation without a mailer call only
\* when no row is QUEUED; a subscribe of an ACTIVE subscriber makes it PENDING,
\* and a fan-out creates rows only for subscribers that are ACTIVE when it
\* runs.
C39_ProcessorSelectsOnSendStatusAlone ==
    [][ /\ \A p \in Procs :
             (pc[p] = "sends" /\ pc'[p] = "mail") =>
               /\ batch'[p] \subseteq {r \in sends : r.status = "QUEUED"}
               /\ Cardinality({r \in sends : r.status = "QUEUED"}) <= batchSize
                     => batch'[p] = {r \in sends : r.status = "QUEUED"}
        /\ \A p \in Procs :
             (pc[p] = "sends" /\ pc'[p] = "idle" /\ faultsLeft' = faultsLeft)
               => {r \in sends : r.status = "QUEUED"} = {}
        /\ \A e \in Emails :
             (subs[e].status = "ACTIVE" /\ subs'[e] # subs[e])
               => subs'[e].status = "PENDING" /\ subs'[e].token # NULL
        /\ \A r \in NewRows(sends, sends') :
             subs[r.subscriberId].status = "ACTIVE" ]_vars

\* the subscriber of a QUEUED row has subscribed again and is PENDING; the
\* row has been selected and is the next to be mailed, while a post expanded
\* after the re-subscribe has no row for that subscriber
C39_Witness ==
    \E p \in Procs : \E i \in DOMAIN posts :
        /\ pc[p] = "mail"
        /\ batch[p] # {}
        /\ subs[FirstSend(batch[p]).subscriberId].status = "PENDING"
        /\ FirstSend(batch[p]).postId # i
        /\ expansions[i] >= 1
        /\ ~ HasSend(sends, i, FirstSend(batch[p]).subscriberId)

\* C40: when cycles never overlap and every store write succeeds, a Send row
\* is mailed at most once per invocation, its mailer call succeeds at most
\* once, and the mailer is called for it at most 5 times: every call is for a
\* row that is QUEUED with fewer than 5 attempts, a call leaves the row SENT
\* or counts one more attempt (FAILED at the fifth), the row leaves the batch,
\* and a SENT or FAILED row never changes again.
C40_SerialCyclesMailEachRowAtMostFiveTimes ==
    /\ [](\A r \in sends : r.attempts <= FailThreshold)
    /\ [][ /\ \A p \in Procs :
                MailerCalled(p) =>
                  LET r == FirstSend(batch[p])
                      after == RowOf(sends', r.id)
                  IN /\ r \in sends
                     /\ r.status = "QUEUED"
                     /\ r.attempts < FailThreshold
                     /\ r.id \notin Ids(batch'[p])
                     /\ \/ after.status = "SENT" /\ after.attempts = r.attempts
                        \/ /\ after.attempts = r.attempts + 1
                           /\ after.status = IF after.attempts = FailThreshold
                                                THEN "FAILED" ELSE "QUEUED"
           /\ \A p \in Procs : pc[p] = "mail" => batch'[p] \subseteq batch[p]
           /\ \A r \in sends :
                r.status \in {"SENT", "FAILED"} => r \in sends' ]_vars

\* a row that had failed four times was mailed once more, failed and is
\* FAILED with 5 attempts, and the invocation has returned
C40_Witness ==
    /\ InFlight = {}
    /\ \E r \in sends : r.status = "FAILED" /\ r.attempts = FailThreshold
====
